---- MODULE Spec2Model ----
(***************************************************************************)
(* python-sweep (src/main.rs): walk a directory tree, find the virtualenv  *)
(* of every pyproject.toml, report its size or delete it, keep a running   *)
(* total that a Ctrl-C handler thread may print.                           *)
(*                                                                         *)
(* A path is the sequence of its components; the filesystem is the set of  *)
(* paths that exist.  The walker (walkdir) lists a directory when it       *)
(* yields it and hands out its entries in any order.                       *)
(***************************************************************************)
EXTENDS Integers, Sequences, FiniteSets, TLC

\* ------------------------------------------------------------------ bounds
\* File sizes are drawn from 1..MaxFileSize.
MaxFileSize == 2
\* Number of SIGINTs the operator sends during one run.
MaxInterrupts == 1
\* Number of entries listed in the directory that get_size_on_disk measures.
MaxSizeEntries == 2

\* ------------------------------------------------------------ the universe
Root == <<"r">>
ProjA == <<"r", "a">>
MarkA == <<"r", "a", "pyproject.toml">>
VenvA == <<"r", "a", ".venv">>
FileA == <<"r", "a", ".venv", "f">>
ProjB == <<"r", "a", "b">>
MarkB == <<"r", "a", "b", "pyproject.toml">>
VenvB == <<"r", "a", "b", ".venv">>
FileB == <<"r", "a", "b", ".venv", "g">>
\* the virtualenv poetry manages, outside the scanned tree
VenvX == <<"x">>
FileX == <<"x", "h">>

Dirs == {Root, ProjA, VenvA, ProjB, VenvB, VenvX}
VenvFiles == {FileA, FileB, FileX}
RegularFiles == {MarkA, MarkB} \cup VenvFiles
NoPath == <<>>

\* The trees a run may start from: project a always has its marker; it may
\* have a .venv; the nested project b may be absent, or have a marker with or
\* without a .venv.
Layouts ==
  { {Root, ProjA, MarkA, VenvX, FileX} \cup va \cup vb :
      va \in { {}, {VenvA, FileA} },
      vb \in { {}, {ProjB, MarkB}, {ProjB, MarkB, VenvB, FileB} } }

\* What `which poetry` and `poetry env info --path` do on this machine.
\* stdout is a sequence of tokens, "\n" being white space.
PoetryEnvs ==
  { [avail |-> FALSE, spawn |-> FALSE, success |-> FALSE, stdout |-> <<>>],
    [avail |-> TRUE,  spawn |-> FALSE, success |-> FALSE, stdout |-> <<>>],
    [avail |-> TRUE,  spawn |-> TRUE,  success |-> FALSE, stdout |-> <<>>],
    [avail |-> TRUE,  spawn |-> TRUE,  success |-> TRUE,  stdout |-> <<"x", "\n">>] }

Clis == [delete : BOOLEAN, deep : BOOLEAN, debug : BOOLEAN, non_interactive : BOOLEAN]

VARIABLES
  cli,            \* Cli (parsed once, read-only)
  env,            \* the poetry environment
  fs,             \* the paths that exist
  fsize,          \* length of every virtualenv file
  stack,          \* walkdir's stack of open directory listings
  started,        \* walkdir has yielded the root
  checked_paths,  \* Vec<PathBuf> of claimed project roots
  total_deleted,  \* Arc<RwLock<u64>>
  pc,             \* where the main thread is
  cur,            \* the candidate in hand: val, dir_size
  answer,         \* what the last confirmation prompt returned
  hpc,            \* the ctrlc handler thread
  interrupts,     \* SIGINTs delivered so far
  exitState,      \* "running", "exit0" (return / exit(0)), "panic"
  stdout,         \* lines printed with println!
  stderr,         \* the kinds of line printed with eprintln! so far
  summary,        \* the summary line, once printed
  lastRes,        \* what the last check_path call did
  removed,        \* history: the directories remove_dir_all removed
  sigRemoved,     \* history: Len(removed) when the SIGINT was delivered
  handlerRuns,    \* history: times the handler closure has run to its end
  szPc, szTodo, szCur, szSize, szKind,  \* get_size_on_disk, step by step
  run,            \* 1 in the first run over the tree, 2 in the second
  firstRun        \* what the first run printed

vars == <<cli, env, fs, fsize, stack, started, checked_paths, total_deleted, pc,
          cur, answer, hpc, interrupts, exitState, stdout, stderr, summary,
          lastRes, removed, sigRemoved, handlerRuns,
          szPc, szTodo, szCur, szSize, szKind, run, firstRun>>

szVars == <<szPc, szTodo, szCur, szSize, szKind, run, firstRun>>

\* ----------------------------------------------------------------- paths
Range(s) == {s[i] : i \in 1..Len(s)}

\* Path::starts_with: component-wise prefix
StartsWith(p, base) == Len(base) <= Len(p) /\ SubSeq(p, 1, Len(base)) = base

Parent(p) == SubSeq(p, 1, Len(p) - 1)

FileName(p) == p[Len(p)]

Join(p, name) == Append(p, name)

Exists(f, p) == p \in f

Children(f, d) == {p \in f : Len(p) = Len(d) + 1 /\ StartsWith(p, d)}

\* std::fs::remove_dir_all
RemoveDirAll(f, d) == {p \in f : ~StartsWith(p, d)}

RECURSIVE SumOver(_, _)
SumOver(S, len) ==
  IF S = {} THEN 0
  ELSE LET p == CHOOSE q \in S : TRUE IN len[p] + SumOver(S \ {p}, len)

FileLen(sz, p) == IF p \in DOMAIN sz THEN sz[p] ELSE 1

\* str::trim on the tokens of poetry's output, then PathBuf::from
RECURSIVE TrimStart(_)
TrimStart(s) == IF s # <<>> /\ Head(s) = "\n" THEN TrimStart(Tail(s)) ELSE s

RECURSIVE TrimEnd(_)
TrimEnd(s) ==
  IF s # <<>> /\ s[Len(s)] = "\n" THEN TrimEnd(SubSeq(s, 1, Len(s) - 1)) ELSE s

Trim(s) == TrimEnd(TrimStart(s))

\* byte_unit::Byte::from_u64(n).get_appropriate_unit(Decimal).to_string()
HumanReadable(n) ==
  IF n < 1000 THEN <<n, "B">> ELSE <<n \div 1000, n % 1000, "KB">>

\* ------------------------------------------------------ get_size_on_disk
\* The whole loop when nothing else touches the tree: every entry under
\* path that is_file() adds its metadata().len(); a path that does not
\* exist yields one Err entry and the sum stays 0.
get_size_on_disk(f, sz, path) ==
  LET files == {p \in f : StartsWith(p, path) /\ p \in RegularFiles}
  IN SumOver(files, [p \in files |-> FileLen(sz, p)])

\* ------------------------------------------------------------ check_path
Outcome(ok, val, why, checked, which, invoked, log) ==
  [ok |-> ok, val |-> val,
   variant |-> IF ok THEN "Ok" ELSE "NotReallyAnError",
   why |-> why, checked |-> checked, which |-> which, invoked |-> invoked,
   log |-> log]

\* the bug of asking whether the claimed root lies under the entry
AlreadyCheckedReversed(checked, cfg, entry) ==
  ~cfg.deep /\ \E i \in 1..Len(checked) : StartsWith(checked[i], entry)

\* lines 64-73: the entry lies under a claimed root and --deep is off
AlreadyChecked(checked, cfg, entry) ==
  ~cfg.deep /\ \E i \in 1..Len(checked) : StartsWith(entry, checked[i])

\* the bug of asking poetry before looking for .venv
ResolveVenvPoetryFirst(cfg, checked, project, f, e) ==
  LET venv == Join(project, ".venv")
  IN IF e.avail /\ e.spawn /\ e.success
       THEN Outcome(TRUE, Trim(e.stdout), "FromPoetry", checked, TRUE, TRUE, {})
     ELSE IF Exists(f, venv)
       THEN Outcome(TRUE, venv, "VenvFound", checked, TRUE, e.avail, {})
     ELSE Outcome(FALSE, NoPath, "NoOtherWay", checked, TRUE, e.avail, {})

\* lines 82-136: .venv first, then poetry, then give up
ResolveVenv(cfg, checked, project, f, e) ==
  LET venv == Join(project, ".venv")
      dbg(lines) == IF cfg.debug THEN lines ELSE {}
  IN IF Exists(f, venv)
       THEN Outcome(TRUE, venv, "VenvFound", checked, FALSE, FALSE,
                    dbg({"ProjectPath", "VenvFound"}))
     ELSE IF e.avail
       THEN IF ~e.spawn
              THEN Outcome(FALSE, NoPath, "ExecFailed", checked, TRUE, TRUE,
                           dbg({"ProjectPath", "TryingPoetry"}))
            ELSE IF e.success
              THEN Outcome(TRUE, Trim(e.stdout), "FromPoetry", checked, TRUE, TRUE,
                           dbg({"ProjectPath", "TryingPoetry", "VenvFromPoetry"}))
            ELSE Outcome(FALSE, NoPath, "PoetryFailed", checked, TRUE, TRUE,
                         dbg({"ProjectPath", "TryingPoetry"}))
     ELSE Outcome(FALSE, NoPath, "NoOtherWay", checked, TRUE, FALSE,
                  dbg({"ProjectPath"}))

check_path(checked, cfg, entry, f, e) ==
  IF AlreadyChecked(checked, cfg, entry)
    THEN Outcome(FALSE, NoPath, "AlreadyChecked", checked, FALSE, FALSE, {})
  ELSE IF FileName(entry) = "pyproject.toml"
    THEN ResolveVenv(cfg, Append(checked, Parent(entry)), Parent(entry), f, e)
  ELSE Outcome(FALSE, NoPath, "NotMarker", checked, FALSE, FALSE, {})

\* the resolver's Error outcomes, as opposed to its silent skips
ResolutionFailures == {"ExecFailed", "PoetryFailed", "NoOtherWay"}

\* the bug of printing every Err, debug or not
ErrLinesAlways(cfg, res) == {"Error"}

\* lines 196-202: what main prints for an Err from check_path
ErrLines(cfg, res) ==
  IF res.variant = "ActuallyAnError" THEN {"Error"}
  ELSE IF cfg.debug THEN {"DebugErr"}
  ELSE {}

\* ---------------------------------------------------------------- walkdir
\* IntoIter::push: read_dir at the moment the directory is yielded; a
\* failure is kept in the listing and comes out as the next item.
Push(f, st, d) ==
  Append(st, IF Exists(f, d) THEN [err |-> FALSE, todo |-> Children(f, d)]
             ELSE [err |-> TRUE, todo |-> {}])

RECURSIVE Normalize(_)
Normalize(st) ==
  IF st # <<>> /\ ~st[Len(st)].err /\ st[Len(st)].todo = {}
    THEN Normalize(SubSeq(st, 1, Len(st) - 1))
    ELSE st

\* The items IntoIter::next may return now, each with the stack it leaves.
WalkItems ==
  IF ~started
    THEN {[ok |-> TRUE, path |-> Root, stack |-> Normalize(Push(fs, <<>>, Root))]}
  ELSE IF stack = <<>> THEN {}
  ELSE LET n == Len(stack)
           top == stack[n]
           rest == SubSeq(stack, 1, n - 1)
       IN IF top.err
            THEN {[ok |-> FALSE, path |-> NoPath, stack |-> Normalize(rest)]}
          ELSE {[ok |-> TRUE, path |-> e,
                 stack |-> LET less == Append(rest, [top EXCEPT !.todo = @ \ {e}])
                           IN Normalize(IF e \in Dirs THEN Push(fs, less, e) ELSE less)]
                : e \in top.todo}

Alive == exitState = "running"

NoCur == [val |-> NoPath, dir_size |-> 0]

NoRes == [entry |-> NoPath, before |-> <<>>, venvThere |-> FALSE,
          res |-> Outcome(FALSE, NoPath, "None", <<>>, FALSE, FALSE, {}),
          printed |-> {}]

NoSummary == [by |-> "nobody", kind |-> "none", text |-> <<>>]

\* ------------------------------------------------------------------ Init
SizeIdle ==
  /\ szPc = "off" /\ szTodo = {} /\ szCur = NoPath /\ szSize = 0
  /\ szKind = <<>>
  /\ run = 1 /\ firstRun = [candidates |-> {}, total |-> <<>>]

Init ==
  /\ cli \in Clis
  /\ env \in PoetryEnvs
  /\ fs \in Layouts
  /\ fsize \in [VenvFiles -> 1..MaxFileSize]
  /\ stack = <<>> /\ started = FALSE
  /\ checked_paths = <<>>
  /\ total_deleted = 0
  /\ pc = "walk" /\ cur = NoCur /\ answer = "none"
  /\ hpc = "idle" /\ interrupts = 0
  /\ exitState = "running"
  /\ stdout = <<>>
  /\ stderr = IF cli.debug THEN {"WalkingPath"} ELSE {}
  /\ summary = NoSummary
  /\ lastRes = NoRes
  /\ removed = <<>> /\ sigRemoved = 0 /\ handlerRuns = 0
  /\ SizeIdle

\* --------------------------------------------------- main: the walk loop
Dbg(lines) == IF cli.debug THEN lines ELSE {}

\* lines 176-187: the walker hands out an error
WalkError ==
  /\ Alive /\ pc = "walk"
  /\ \E it \in WalkItems :
       /\ ~it.ok
       /\ stack' = it.stack
       /\ stderr' = stderr \cup Dbg({"ErrDirentry"})
  /\ UNCHANGED <<cli, env, fs, fsize, started, checked_paths, total_deleted, pc,
                 cur, answer, hpc, interrupts, exitState, stdout, summary,
                 lastRes, removed, sigRemoved, handlerRuns, szVars>>

\* lines 188-193: the entry was listed but is gone
WalkVanished ==
  /\ Alive /\ pc = "walk"
  /\ \E it \in WalkItems :
       /\ it.ok /\ ~Exists(fs, it.path)
       /\ stack' = it.stack
       /\ started' = TRUE
       /\ stderr' = stderr \cup Dbg({"PathDoesntExist"})
  /\ UNCHANGED <<cli, env, fs, fsize, checked_paths, total_deleted, pc,
                 cur, answer, hpc, interrupts, exitState, stdout, summary,
                 lastRes, removed, sigRemoved, handlerRuns, szVars>>

Resolved(it) ==
  LET res == check_path(checked_paths, cli, it.path, fs, env)
  IN [entry |-> it.path, before |-> checked_paths,
      venvThere |-> Exists(fs, Join(Parent(it.path), ".venv")),
      res |-> res,
      printed |-> res.log \cup (IF res.ok THEN {} ELSE ErrLines(cli, res))]

\* lines 195-202: check_path returns Err
WalkSkip ==
  /\ Alive /\ pc = "walk"
  /\ \E it \in WalkItems :
       /\ it.ok /\ Exists(fs, it.path)
       /\ ~Resolved(it).res.ok
       /\ stack' = it.stack
       /\ started' = TRUE
       /\ lastRes' = Resolved(it)
       /\ checked_paths' = Resolved(it).res.checked
       /\ stderr' = stderr \cup Resolved(it).printed
  /\ UNCHANGED <<cli, env, fs, fsize, total_deleted, pc,
                 cur, answer, hpc, interrupts, exitState, stdout, summary,
                 removed, sigRemoved, handlerRuns, szVars>>

\* the bug of writing = for +=
AddTotalAssign(total, dir_size) == dir_size

\* line 242 and line 238: *writer += dir_size
AddTotal(total, dir_size) == total + dir_size

\* lines 203-208, 240-244: a candidate in report mode
WalkFound ==
  /\ Alive /\ pc = "walk" /\ ~cli.delete
  /\ \E it \in WalkItems :
       /\ it.ok /\ Exists(fs, it.path)
       /\ Resolved(it).res.ok
       /\ LET val == Resolved(it).res.val
              dir_size == get_size_on_disk(fs, fsize, val)
          IN /\ total_deleted' = AddTotal(total_deleted, dir_size)
             /\ stdout' = Append(stdout, [kind |-> "Found", path |-> val,
                                          size |-> HumanReadable(dir_size)])
       /\ stack' = it.stack
       /\ started' = TRUE
       /\ lastRes' = Resolved(it)
       /\ checked_paths' = Resolved(it).res.checked
       /\ stderr' = stderr \cup Resolved(it).printed
  /\ UNCHANGED <<cli, env, fs, fsize, pc,
                 cur, answer, hpc, interrupts, exitState, summary,
                 removed, sigRemoved, handlerRuns, szVars>>

\* the bug of ignoring the operator's answer
DoitAlways(cfg, ans) == TRUE

\* lines 210-230: doit
Doit(cfg, ans) == IF cfg.non_interactive THEN TRUE ELSE ans = "yes"

\* lines 203-212: a candidate in delete mode, up to the prompt
WalkCandidate ==
  /\ Alive /\ pc = "walk" /\ cli.delete
  /\ \E it \in WalkItems :
       /\ it.ok /\ Exists(fs, it.path)
       /\ Resolved(it).res.ok
       /\ LET val == Resolved(it).res.val
          IN cur' = [val |-> val, dir_size |-> get_size_on_disk(fs, fsize, val)]
       /\ stack' = it.stack
       /\ started' = TRUE
       /\ lastRes' = Resolved(it)
       /\ checked_paths' = Resolved(it).res.checked
       /\ stderr' = stderr \cup Resolved(it).printed
  /\ answer' = "none"
  /\ pc' = IF cli.non_interactive
             THEN (IF Doit(cli, "none") THEN "remove" ELSE "walk")
             ELSE "confirm"
  /\ UNCHANGED <<cli, env, fs, fsize, total_deleted,
                 hpc, interrupts, exitState, stdout, summary,
                 removed, sigRemoved, handlerRuns, szVars>>

\* the bug of taking a failed prompt for a "no"
AfterPromptFailIsNo(cfg, ans) ==
  [pc |-> IF cfg.non_interactive \/ ans = "yes" THEN "remove" ELSE "walk",
   exitState |-> "running",
   line |-> IF ans = "fail" THEN {"ErrResponse"} ELSE {}]

\* lines 220-226: what the prompt's result does to the run
AfterPrompt(cfg, ans) ==
  IF ans = "fail" THEN [pc |-> "done", exitState |-> "exit0", line |-> {"ErrResponse"}]
  ELSE [pc |-> IF Doit(cfg, ans) THEN "remove" ELSE "walk",
        exitState |-> "running", line |-> {}]

\* lines 213-228: dialoguer::Confirm::interact returns
Confirm ==
  /\ Alive /\ pc = "confirm"
  /\ \E ans \in {"yes", "no", "fail"} :
       /\ answer' = ans
       /\ pc' = AfterPrompt(cli, ans).pc
       /\ exitState' = AfterPrompt(cli, ans).exitState
       /\ stderr' = stderr \cup AfterPrompt(cli, ans).line
  /\ UNCHANGED <<cli, env, fs, fsize, stack, started, checked_paths, total_deleted,
                 cur, hpc, interrupts, stdout, summary,
                 lastRes, removed, sigRemoved, handlerRuns, szVars>>

\* lines 231-235: remove_dir_all succeeds, "Deleted" is printed
Remove ==
  /\ Alive /\ pc = "remove"
  /\ Exists(fs, cur.val)
  /\ fs' = RemoveDirAll(fs, cur.val)
  /\ removed' = Append(removed, [path |-> cur.val,
                                 size |-> get_size_on_disk(fs, fsize, cur.val),
                                 answer |-> answer])
  /\ stdout' = Append(stdout, [kind |-> "Deleted", path |-> cur.val,
                               size |-> HumanReadable(cur.dir_size)])
  /\ stderr' = stderr \cup Dbg({"Deleting"})
  /\ pc' = "account"
  /\ UNCHANGED <<cli, env, fsize, stack, started, checked_paths, total_deleted,
                 cur, answer, hpc, interrupts, exitState, summary,
                 lastRes, sigRemoved, handlerRuns, szVars>>

\* line 234: remove_dir_all fails and expect() panics
RemoveFails ==
  /\ Alive /\ pc = "remove"
  /\ ~Exists(fs, cur.val)
  /\ stderr' = stderr \cup Dbg({"Deleting"}) \cup {"Panic"}
  /\ pc' = "done"
  /\ exitState' = "panic"
  /\ UNCHANGED <<cli, env, fs, fsize, stack, started, checked_paths, total_deleted,
                 cur, answer, hpc, interrupts, stdout, summary,
                 lastRes, removed, sigRemoved, handlerRuns, szVars>>

\* lines 236-238: the deleted size goes into the total
Account ==
  /\ Alive /\ pc = "account"
  /\ total_deleted' = AddTotal(total_deleted, cur.dir_size)
  /\ pc' = "walk"
  /\ UNCHANGED <<cli, env, fs, fsize, stack, started, checked_paths,
                 cur, answer, hpc, interrupts, exitState, stdout, stderr, summary,
                 lastRes, removed, sigRemoved, handlerRuns, szVars>>

\* lines 248-256: the walk is over, the summary is printed, main returns
Finish ==
  /\ Alive /\ pc = "walk"
  /\ started /\ stack = <<>>
  /\ summary' = [by |-> "main",
                 kind |-> IF cli.delete THEN "Deleted" ELSE "Found",
                 text |-> HumanReadable(total_deleted)]
  /\ stderr' = stderr \cup {"Summary"}
  /\ pc' = "done"
  /\ exitState' = "exit0"
  /\ UNCHANGED <<cli, env, fs, fsize, stack, started, checked_paths, total_deleted,
                 cur, answer, hpc, interrupts, stdout,
                 lastRes, removed, sigRemoved, handlerRuns, szVars>>

\* -------------------------------------------------- the ctrlc handler
\* SIGINT is delivered: the ctrlc thread wakes up
Interrupt ==
  /\ Alive /\ hpc = "idle"
  /\ interrupts < MaxInterrupts
  /\ interrupts' = interrupts + 1
  /\ hpc' = "running"
  /\ sigRemoved' = Len(removed)
  /\ UNCHANGED <<cli, env, fs, fsize, stack, started, checked_paths, total_deleted,
                 pc, cur, answer, exitState, stdout, stderr, summary,
                 lastRes, removed, handlerRuns, szVars>>

\* lines 154-168: what the closure does, given the total it reads
Handler(cfg, total) ==
  IF cfg.delete
    THEN [summary |-> [by |-> "handler", kind |-> "Deleted",
                       text |-> HumanReadable(total)],
          exitState |-> "exit0", lines |-> {"ReceivedCtrlC", "Summary"}]
    ELSE [summary |-> NoSummary, exitState |-> "running",
          lines |-> {"ReceivedCtrlC"}]

HandlerRun ==
  /\ Alive /\ hpc = "running"
  /\ LET h == Handler(cli, total_deleted)
     IN /\ summary' = IF h.summary = NoSummary THEN summary ELSE h.summary
        /\ exitState' = h.exitState
        /\ stderr' = stderr \cup h.lines
  /\ hpc' = "idle"
  /\ handlerRuns' = handlerRuns + 1
  /\ UNCHANGED <<cli, env, fs, fsize, stack, started, checked_paths, total_deleted,
                 pc, cur, answer, interrupts, stdout,
                 lastRes, removed, sigRemoved, szVars>>

Next ==
  \/ WalkError
  \/ WalkVanished
  \/ WalkSkip
  \/ WalkFound
  \/ WalkCandidate
  \/ Confirm
  \/ Remove
  \/ RemoveFails
  \/ Account
  \/ Finish
  \/ Interrupt
  \/ HandlerRun

Spec == Init /\ [][Next]_vars

\* ------------------------------------- get_size_on_disk, step by step
\* The directory measured is <<"v">>; its entries are <<"v", i>>.  Another
\* process may remove an entry while the loop runs.
SzRoot == <<"v">>
SzEntries == {<<"v", i>> : i \in 1..MaxSizeEntries}

\* "file": a regular file; "nostat": stat fails, so is_file() is false;
\* "errdir": a subdirectory whose read_dir fails, so WalkDir yields an Err
SzKinds == {"file", "nostat", "errdir"}

\* WalkDir's items for the entries listed under the root
SzItems(f, kind) ==
  {[path |-> e, err |-> FALSE] : e \in f \ {SzRoot}}
    \cup {[path |-> e, err |-> TRUE] : e \in {x \in f \ {SzRoot} : kind[x] = "errdir"}}

\* Path::is_file: a stat that succeeds and says regular file
IsFile(f, kind, e) == e \in f /\ kind[e] = "file"

InitSize ==
  /\ cli = [delete |-> FALSE, deep |-> FALSE, debug |-> FALSE, non_interactive |-> FALSE]
  /\ env = [avail |-> FALSE, spawn |-> FALSE, success |-> FALSE, stdout |-> <<>>]
  /\ fs \in { {}, {SzRoot} \cup SzEntries }
  /\ fsize \in [SzEntries -> 1..MaxFileSize]
  /\ szKind \in [SzEntries -> SzKinds]
  /\ szPc = "start" /\ szTodo = {} /\ szCur = NoPath /\ szSize = 0
  /\ stack = <<>> /\ started = TRUE
  /\ checked_paths = <<>>
  /\ total_deleted = 0
  /\ pc = "size" /\ cur = NoCur /\ answer = "none"
  /\ hpc = "idle" /\ interrupts = 0
  /\ exitState = "running"
  /\ stdout = <<>> /\ stderr = {}
  /\ summary = NoSummary
  /\ lastRes = NoRes
  /\ removed = <<>> /\ sigRemoved = 0 /\ handlerRuns = 0
  /\ run = 1 /\ firstRun = [candidates |-> {}, total |-> <<>>]

mainVars == <<cli, env, stack, started, checked_paths, total_deleted, pc,
              cur, answer, hpc, interrupts, stdout, stderr, summary,
              lastRes, removed, sigRemoved, handlerRuns, run, firstRun>>

\* line 43: WalkDir::new(path) yields the root, or an Err when it is gone
SzStart ==
  /\ szPc = "start"
  /\ szTodo' = IF SzRoot \in fs THEN SzItems(fs, szKind) ELSE {}
  /\ szPc' = "iter"
  /\ UNCHANGED <<fs, fsize, szCur, szSize, szKind, exitState, mainVars>>

\* lines 44-50: Err(_) => continue
SzErr ==
  /\ szPc = "iter"
  /\ \E it \in szTodo :
       /\ it.err
       /\ szTodo' = szTodo \ {it}
  /\ UNCHANGED <<fs, fsize, szPc, szCur, szSize, szKind, exitState, mainVars>>

\* line 51: entry.path().is_file()
SzIsFile ==
  /\ szPc = "iter"
  /\ \E it \in szTodo :
       /\ ~it.err
       /\ szTodo' = szTodo \ {it}
       /\ IF IsFile(fs, szKind, it.path)
            THEN szPc' = "meta" /\ szCur' = it.path
            ELSE szPc' = "iter" /\ szCur' = szCur
  /\ UNCHANGED <<fs, fsize, szSize, szKind, exitState, mainVars>>

\* line 52: entry.metadata() is Ok, its len() is added
SzMetadata ==
  /\ szPc = "meta"
  /\ szCur \in fs
  /\ szSize' = szSize + fsize[szCur]
  /\ szPc' = "iter"
  /\ UNCHANGED <<fs, fsize, szTodo, szCur, szKind, exitState, mainVars>>

\* line 52: entry.metadata() is Err and unwrap() panics
SzUnwrapPanics ==
  /\ szPc = "meta"
  /\ szCur \notin fs
  /\ szPc' = "panic"
  /\ exitState' = "panic"
  /\ UNCHANGED <<fs, fsize, szTodo, szCur, szSize, szKind, mainVars>>

\* line 55: the loop is over, size is returned
SzReturn ==
  /\ szPc = "iter"
  /\ szTodo = {}
  /\ szPc' = "done"
  /\ UNCHANGED <<fs, fsize, szTodo, szCur, szSize, szKind, exitState, mainVars>>

\* another process removes an entry of the directory
SzRemoved ==
  /\ szPc \in {"start", "iter", "meta"}
  /\ \E e \in fs \ {SzRoot} : fs' = fs \ {e}
  /\ UNCHANGED <<fsize, szPc, szTodo, szCur, szSize, szKind, exitState, mainVars>>

NextSize ==
  \/ SzStart
  \/ SzErr
  \/ SzIsFile
  \/ SzMetadata
  \/ SzUnwrapPanics
  \/ SzReturn
  \/ SzRemoved

SpecSize == InitSize /\ [][NextSize]_vars

\* ------------------------------------------------- two runs, same tree
\* Report mode, no SIGINT: the program is started a second time on the tree
\* the first run left (report mode removes nothing), with the same Cli and
\* the same poetry.
InitReport == Init /\ ~cli.delete

Rerun ==
  /\ run = 1
  /\ pc = "done" /\ exitState = "exit0" /\ summary.by = "main"
  /\ run' = 2
  /\ firstRun' = [candidates |-> Range(stdout), total |-> summary.text]
  /\ stack' = <<>> /\ started' = FALSE
  /\ checked_paths' = <<>>
  /\ total_deleted' = 0
  /\ pc' = "walk"
  /\ exitState' = "running"
  /\ stdout' = <<>>
  /\ stderr' = IF cli.debug THEN {"WalkingPath"} ELSE {}
  /\ summary' = NoSummary
  /\ lastRes' = NoRes
  /\ UNCHANGED <<cli, env, fs, fsize, cur, answer, hpc, interrupts,
                 removed, sigRemoved, handlerRuns,
                 szPc, szTodo, szCur, szSize, szKind>>

NextReport ==
  \/ WalkSkip
  \/ WalkFound
  \/ Finish
  \/ Rerun

SpecReport == InitReport /\ [][NextReport]_vars

\* ================================================================ claims
RECURSIVE SumSizes(_)
SumSizes(rs) == IF rs = <<>> THEN 0 ELSE Head(rs).size + SumSizes(Tail(rs))

Warned(r) == r.printed \cap {"Error", "DebugErr"} # {}

UnderClaimed(r) == \E i \in 1..Len(r.before) : StartsWith(r.entry, r.before[i])

\* C1: the filesystem changes only in delete mode, only by removing the
\* candidate in hand, and only if --non-interactive is set or the operator
\* answered yes to the prompt for that candidate; so nothing is removed in
\* report mode or after a "no".
C1_RemovalNeedsApproval ==
  [][fs' # fs =>
       /\ cli.delete
       /\ cli.non_interactive \/ answer = "yes"
       /\ fs' = RemoveDirAll(fs, cur.val)
       /\ removed' = Append(removed, [path |-> cur.val,
                                      size |-> get_size_on_disk(fs, fsize, cur.val),
                                      answer |-> answer])]_vars

\* a directory was removed on a "yes" and the next candidate was declined
C1_Witness ==
  /\ cli.delete /\ ~cli.non_interactive
  /\ Len(removed) = 1 /\ removed[1].answer = "yes"
  /\ answer = "no" /\ pc = "walk" /\ Exists(fs, cur.val)

\* C2: in delete mode the total in main's final summary is the sum of the
\* sizes of the directories removed in the run, each counted once; a
\* declined candidate adds nothing.
C2_FinalTotalIsRemovedSum ==
  (cli.delete /\ summary.by = "main") =>
     /\ summary.kind = "Deleted"
     /\ summary.text = HumanReadable(SumSizes(removed))

\* the walk ended after a removal and a declined candidate
C2_Witness ==
  /\ cli.delete /\ ~cli.non_interactive /\ summary.by = "main"
  /\ Len(removed) = 1 /\ removed[1].size > 0
  /\ answer = "no" /\ Exists(fs, cur.val) /\ cur.dir_size > 0

\* C3: in delete mode the total the handler prints is the sum of the sizes
\* of the deletions completed before the SIGINT was delivered, and nothing
\* is deleted after the delivery.
C3_HandlerTotalIsCompletedDeletions ==
  summary.by = "handler" =>
     /\ Len(removed) = sigRemoved
     /\ summary.text = HumanReadable(SumSizes(SubSeq(removed, 1, sigRemoved)))

\* C4: with --deep off, an entry under a root claimed earlier is skipped by
\* check_path: no candidate, no new claimed root, no which, no poetry.
C4_ClaimedSubtreeSkipped ==
  (lastRes.entry # NoPath /\ ~cli.deep /\ UnderClaimed(lastRes)) =>
     /\ ~lastRes.res.ok
     /\ lastRes.res.why = "AlreadyChecked"
     /\ lastRes.res.checked = lastRes.before
     /\ checked_paths = lastRes.before
     /\ ~lastRes.res.which /\ ~lastRes.res.invoked

\* a pyproject.toml under a claimed root has just been skipped
C4_Witness ==
  /\ ~cli.deep
  /\ lastRes.entry = MarkB
  /\ UnderClaimed(lastRes)
  /\ lastRes.res.why = "AlreadyChecked"

\* C5 as stated: a resolution failure is always warned about on stderr,
\* debug or not.
C5_FailureAlwaysWarned ==
  (lastRes.entry # NoPath /\ lastRes.res.why \in ResolutionFailures) =>
     Warned(lastRes)

\* C5 amended: a resolution failure prints a line on stderr exactly when
\* --debug is set, and the walk goes on with the next entry.
C5_FailureWarnedIffDebug ==
  [][(lastRes' # lastRes /\ lastRes'.res.why \in ResolutionFailures) =>
       /\ Warned(lastRes') <=> cli.debug
       /\ pc' = "walk" /\ exitState' = "running"]_vars

\* a resolution failure went unreported, and the walk has entries left
C5_Witness ==
  /\ ~cli.debug
  /\ lastRes.res.why \in ResolutionFailures
  /\ lastRes.printed = {}
  /\ pc = "walk" /\ exitState = "running" /\ stack # <<>>

\* C6 as stated: a failed prompt ends the run by abnormal termination.
C6_PromptFailureIsAbnormal ==
  answer = "fail" => (pc = "done" /\ exitState = "panic")

\* C6 amended: a failed prompt ends the run at once, with nothing resolved,
\* prompted for or deleted afterwards and no summary, but as a normal
\* return from main: exit status 0.
C6_PromptFailureReturns ==
  answer = "fail" =>
     /\ pc = "done" /\ exitState = "exit0"
     /\ summary = NoSummary
     /\ "ErrResponse" \in stderr
     /\ lastRes.res.val = cur.val
     /\ \A i \in 1..Len(removed) : removed[i].answer # "fail"

\* the prompt failed while the walk had entries left
C6_Witness ==
  /\ answer = "fail"
  /\ stack # <<>>
  /\ Exists(fs, cur.val)

\* C7 as stated: every marker file whose project root has a .venv yields
\* that .venv, without which or poetry.
C7_VenvAlwaysReturned ==
  (lastRes.entry # NoPath /\ FileName(lastRes.entry) = "pyproject.toml"
     /\ lastRes.venvThere) =>
     /\ lastRes.res.ok
     /\ lastRes.res.val = Join(Parent(lastRes.entry), ".venv")
     /\ ~lastRes.res.which /\ ~lastRes.res.invoked

\* C7 amended: every marker file that is not skipped as lying under a
\* claimed root, and whose project root has a .venv, yields that .venv
\* without which or poetry; poetry is looked up and invoked only when the
\* .venv is not there.
C7_VenvBeforePoetry ==
  /\ (lastRes.entry # NoPath /\ FileName(lastRes.entry) = "pyproject.toml"
        /\ lastRes.venvThere /\ (cli.deep \/ ~UnderClaimed(lastRes))) =>
        /\ lastRes.res.ok
        /\ lastRes.res.val = Join(Parent(lastRes.entry), ".venv")
        /\ ~lastRes.res.which /\ ~lastRes.res.invoked
  /\ (lastRes.res.which \/ lastRes.res.invoked) => ~lastRes.venvThere

\* .venv was returned on a machine where poetry would have answered
C7_Witness ==
  /\ env.avail /\ env.spawn /\ env.success
  /\ lastRes.entry = MarkA /\ lastRes.venvThere
  /\ lastRes.res.val = VenvA

\* C8: the second report run over the unmodified tree prints the same set
\* of candidates and the same total as the first, whatever the order in
\* which the walker hands out the entries.
C8_SecondRunAgrees ==
  (run = 2 /\ summary.by = "main") =>
     /\ Range(stdout) = firstRun.candidates
     /\ summary.text = firstRun.total

\* C9: get_size_on_disk never aborts, and returns at most the sizes of the
\* files listed and at least the sizes of those still there.
C9_SizeNeverAborts ==
  /\ szPc # "panic"
  /\ szPc = "done" =>
       LET here == {e \in fs \ {SzRoot} : szKind[e] = "file"}
       IN szSize >= SumOver(here, [e \in here |-> fsize[e]])

\* C10: once the handler has run, in either mode, the summary is printed
\* and the process has exited with status 0.
C10_InterruptEndsRun ==
  handlerRuns > 0 => (summary # NoSummary /\ exitState = "exit0")

====
